---- MODULE Spec2Model ----
(***************************************************************************)
(* pyExplorer: the MainWindow controller of package/main_window.py.        *)
(* One QFileSystemModel is shared by a QTreeView and a QListView; the      *)
(* slots of MainWindow move the views' root indexes, the tree view's       *)
(* selection and the list view's icon size.                                *)
(***************************************************************************)
EXTENDS Integers, Sequences, FiniteSets, TLC

(* ---------------- bounds of the model ---------------- *)

\* longest list of paths the standard-locations resolver returns
MaxPaths == 2
\* how far beyond the ends of the slider range a requested position may lie
Slack == 1

(* ---------------- the shared QFileSystemModel ---------------- *)

\* QDir.rootPath()
rootPath == "/"

\* The filesystem the model is read from: one node per existing path, with
\* the node of its enclosing directory (0 above the filesystem root) and
\* whether it is a directory.
Nodes ==
  << [path |-> "/",                       up |-> 0, dir |-> TRUE],
     [path |-> "/home",                   up |-> 1, dir |-> TRUE],
     [path |-> "/swapfile",               up |-> 1, dir |-> FALSE],
     [path |-> "/home/u",                 up |-> 2, dir |-> TRUE],
     [path |-> "/home/u/Desktop",         up |-> 4, dir |-> TRUE],
     [path |-> "/home/u/Documents",       up |-> 4, dir |-> TRUE],
     [path |-> "/home/u/Music",           up |-> 4, dir |-> TRUE],
     [path |-> "/home/u/Pictures",        up |-> 4, dir |-> TRUE],
     [path |-> "/home/u/notes.txt",       up |-> 4, dir |-> FALSE],
     [path |-> "/home/u/Documents/a.txt", up |-> 6, dir |-> FALSE] >>

\* The invalid QModelIndex (the invisible root above the filesystem root).
Invalid == 0

\* The valid indexes of the model.
Indexes == 1..Len(Nodes)

\* QModelIndex.parent(): the index of the enclosing directory; the parent of
\* the filesystem root, and of the invalid index, is the invalid index.
parent(i) == IF i \in Indexes THEN Nodes[i].up ELSE Invalid

\* QFileSystemModel.isDir(index): true for a directory and for the invalid
\* index, false for a file.
isDir(i) == IF i \in Indexes THEN Nodes[i].dir ELSE TRUE

\* QFileSystemModel.index(path): the index of an existing path, the invalid
\* index for a path that does not exist.
index(path) ==
  IF \E i \in Indexes : Nodes[i].path = path
    THEN CHOOSE i \in Indexes : Nodes[i].path = path
    ELSE Invalid

\* The chain of parents of an index, nearest first, ending with Invalid.
RECURSIVE Ancestors(_)
Ancestors(i) == IF i = Invalid THEN {} ELSE {parent(i)} \cup Ancestors(parent(i))

\* The items a tree view rooted at root can show: everything strictly below.
Below(root) == {i \in Indexes : root \in Ancestors(i)}

\* The items a list view rooted at root shows: the children of root.
Children(root) == {i \in Indexes : parent(i) = root}

(* ---------------- the standard-locations resolver ---------------- *)

\* The shortcut list of add_actions_to_toolbox, in toolbar order.
locations == <<"home", "desktop", "documents", "movies", "pictures", "music">>

\* The set of the shortcut names.
Locations == {locations[k] : k \in 1..Len(locations)}

\* The QStandardPaths member the evaluated expression names:
\* location.capitalize() followed by "Location".
StandardLocation(location) ==
  CASE location = "home"      -> "HomeLocation"
    [] location = "desktop"   -> "DesktopLocation"
    [] location = "documents" -> "DocumentsLocation"
    [] location = "movies"    -> "MoviesLocation"
    [] location = "pictures"  -> "PicturesLocation"
    [] location = "music"     -> "MusicLocation"

\* The directories the platform may name for a standard location: the
\* configured directory (which need not exist: no /home/u/Videos here) and
\* the home directory it falls back to.
Candidates(type) ==
  CASE type = "HomeLocation"      -> {"/home/u"}
    [] type = "DesktopLocation"   -> {"/home/u/Desktop", "/home/u"}
    [] type = "DocumentsLocation" -> {"/home/u/Documents", "/home/u"}
    [] type = "MoviesLocation"    -> {"/home/u/Videos", "/home/u"}
    [] type = "PicturesLocation"  -> {"/home/u/Pictures", "/home/u"}
    [] type = "MusicLocation"     -> {"/home/u/Music", "/home/u"}

\* All sequences over S of length at most n.
SeqUpTo(S, n) == UNION {[1..k -> S] : k \in 0..n}

\* QStandardPaths().standardLocations(type): the lists the resolver may
\* return, zero or more paths, resolved anew at every call.
standardLocations(type) == SeqUpTo(Candidates(type), MaxPaths)

(* ---------------- the widgets' state ---------------- *)

VARIABLES
  tree_root,   \* tree_view.rootIndex()
  list_root,   \* list_view.rootIndex()
  selection,   \* tree_view.selectionModel(): the selected indexes
  current,     \* tree_view.selectionModel().currentIndex()
  iconSize,    \* list_view.iconSize(), <<width, height>>
  sld_value,   \* sld_iconSize.value()
  raised,      \* the exception the last slot call ended with, or "none"
  last         \* the last signal delivered: slot, argument, resolved paths

vars == <<tree_root, list_root, selection, current, iconSize, sld_value, raised, last>>

\* The part of the state the slots act on, as one record.
View ==
  [tree_root |-> tree_root, list_root |-> list_root, selection |-> selection,
   current |-> current, iconSize |-> iconSize, raised |-> raised]

\* The slots' effect written back to the widgets.
Apply(s) ==
  /\ tree_root' = s.tree_root
  /\ list_root' = s.list_root
  /\ selection' = s.selection
  /\ current' = s.current
  /\ iconSize' = s.iconSize
  /\ raised' = s.raised

\* sld_iconSize.setRange(48, 256)
sld_min == 48
sld_max == 256

\* QSlider keeps a requested position within its range.
bound(v) == IF v < sld_min THEN sld_min ELSE IF v > sld_max THEN sld_max ELSE v

\* The positions a slider move may request: around both ends of the range.
Positions ==
  ((sld_min - Slack)..(sld_min + Slack)) \cup ((sld_max - Slack)..(sld_max + Slack))

(* ---------------- the slots of MainWindow ---------------- *)

\* change_icon_size with only the width taken from the value.
change_icon_size_width_only(s, value) ==
  [s EXCEPT !.iconSize = <<value, s.iconSize[2]>>, !.raised = "none"]

\* change_icon_size(value): list_view.setIconSize(QSize(value, value))
change_icon_size(s, value) ==
  [s EXCEPT !.iconSize = <<value, value>>, !.raised = "none"]

\* change_location taking the last returned path instead of the first.
change_location_last_path(s, location, path) ==
  IF Len(path) = 0
    THEN [s EXCEPT !.raised = "IndexError"]
    ELSE [s EXCEPT !.tree_root = index(path[Len(path)]),
                   !.list_root = index(path[Len(path)]),
                   !.raised = "none"]

\* change_location falling back to the filesystem root on an empty list.
change_location_reset_on_empty(s, location, path) ==
  IF Len(path) = 0
    THEN [s EXCEPT !.tree_root = index(rootPath),
                   !.list_root = index(rootPath),
                   !.raised = "none"]
    ELSE [s EXCEPT !.tree_root = index(path[1]),
                   !.list_root = index(path[1]),
                   !.raised = "none"]

\* change_location rooting the tree view only.
change_location_tree_only(s, location, path) ==
  IF Len(path) = 0
    THEN [s EXCEPT !.raised = "IndexError"]
    ELSE [s EXCEPT !.tree_root = index(path[1]), !.raised = "none"]

\* change_location(location), path being what the resolver returned:
\* path[0] raises IndexError on an empty list, before either view is
\* touched; otherwise both views are rooted at model.index(path[0]).
change_location(s, location, path) ==
  IF Len(path) = 0
    THEN [s EXCEPT !.raised = "IndexError"]
    ELSE [s EXCEPT !.tree_root = index(path[1]),
                   !.list_root = index(path[1]),
                   !.raised = "none"]

\* treeview_clicked without the isDir test.
treeview_clicked_no_dir_check(s, i) ==
  [s EXCEPT !.list_root = i, !.raised = "none"]

\* treeview_clicked(index): the list view is rooted at a clicked directory,
\* at the parent of a clicked file.
treeview_clicked(s, i) ==
  IF isDir(i)
    THEN [s EXCEPT !.list_root = i, !.raised = "none"]
    ELSE [s EXCEPT !.list_root = parent(i), !.raised = "none"]

\* listview_clicked with Select in place of ClearAndSelect.
listview_clicked_select(s, i) ==
  [s EXCEPT !.current = i, !.selection = s.selection \cup {i}, !.raised = "none"]

\* listview_clicked with Toggle in place of ClearAndSelect.
listview_clicked_toggle(s, i) ==
  [s EXCEPT !.current = i,
            !.selection = IF i \in s.selection THEN s.selection \ {i}
                                               ELSE s.selection \cup {i},
            !.raised = "none"]

\* listview_clicked(index): setCurrentIndex(index, ClearAndSelect) on the
\* tree view's selection model.
listview_clicked(s, i) ==
  [s EXCEPT !.current = i, !.selection = {i}, !.raised = "none"]

\* listview_double_clicked with the isDir test of treeview_clicked.
listview_double_clicked_dir_check(s, i) ==
  IF isDir(i)
    THEN [s EXCEPT !.list_root = i, !.raised = "none"]
    ELSE [s EXCEPT !.list_root = parent(i), !.raised = "none"]

\* listview_double_clicked rooting both views.
listview_double_clicked_both_views(s, i) ==
  [s EXCEPT !.list_root = i, !.tree_root = i, !.raised = "none"]

\* listview_double_clicked(index): list_view.setRootIndex(index)
listview_double_clicked(s, i) ==
  [s EXCEPT !.list_root = i, !.raised = "none"]

(* ---------------- construction and the signals ---------------- *)

\* The state after MainWindow.__init__: icon size 48x48, slider at 48, both
\* views rooted at model.index(QDir.rootPath()), nothing selected.
Init ==
  /\ iconSize = <<sld_min, sld_min>>
  /\ sld_value = bound(sld_min)
  /\ list_root = index(rootPath)
  /\ tree_root = index(rootPath)
  /\ selection = {}
  /\ current = Invalid
  /\ raised = "none"
  /\ last = [slot |-> "__init__", arg |-> "", path |-> <<>>]

\* A toolbar action is triggered: change_location(location).
LocationTriggered ==
  \E k \in 1..Len(locations) :
    \E path \in standardLocations(StandardLocation(locations[k])) :
      /\ Apply(change_location(View, locations[k], path))
      /\ last' = [slot |-> "change_location", arg |-> locations[k], path |-> path]
      /\ UNCHANGED sld_value

\* tree_view.clicked: an item shown by the tree view is clicked.
TreeClicked ==
  \E i \in Below(tree_root) :
    /\ Apply(treeview_clicked(View, i))
    /\ last' = [slot |-> "treeview_clicked", arg |-> i, path |-> <<>>]
    /\ UNCHANGED sld_value

\* list_view.clicked: an item shown by the list view is clicked.
ListClicked ==
  \E i \in Children(list_root) :
    /\ Apply(listview_clicked(View, i))
    /\ last' = [slot |-> "listview_clicked", arg |-> i, path |-> <<>>]
    /\ UNCHANGED sld_value

\* list_view.doubleClicked: an item shown by the list view is double-clicked.
ListDoubleClicked ==
  \E i \in Children(list_root) :
    /\ Apply(listview_double_clicked(View, i))
    /\ last' = [slot |-> "listview_double_clicked", arg |-> i, path |-> <<>>]
    /\ UNCHANGED sld_value

\* sld_iconSize.valueChanged: the slider is moved; the signal is emitted
\* with the bounded position, and only when the value changes.
SliderMoved ==
  \E v \in Positions :
    /\ bound(v) # sld_value
    /\ sld_value' = bound(v)
    /\ Apply(change_icon_size(View, bound(v)))
    /\ last' = [slot |-> "change_icon_size", arg |-> bound(v), path |-> <<>>]

Next ==
  \/ LocationTriggered
  \/ TreeClicked
  \/ ListClicked
  \/ ListDoubleClicked
  \/ SliderMoved

Spec == Init /\ [][Next]_vars

(* ---------------- properties ---------------- *)

\* C1: in every reachable state the list view's root index denotes a
\* directory, never a file.
ListRootIsDirectory == isDir(list_root)

\* C2: after treeview_clicked(i) the list view root is i when i is a
\* directory and parent(i) when i is a file.
TreeClickRootsList ==
  last.slot = "treeview_clicked" =>
    /\ Nodes[last.arg].dir => list_root = last.arg
    /\ ~Nodes[last.arg].dir => list_root = Nodes[last.arg].up

\* C2 witness: a file was clicked in the tree and the list view shows the
\* directory that holds it.
TreeClickOnFile ==
  /\ last.slot = "treeview_clicked"
  /\ ~Nodes[last.arg].dir
  /\ list_root = Nodes[last.arg].up
  /\ list_root # tree_root

\* C3: after change_location on a non-empty resolution, both views are
\* rooted at the index of the first path returned, and so at the same index.
LocationRootsBothViews ==
  (last.slot = "change_location" /\ Len(last.path) >= 1) =>
    /\ \A i \in Indexes : Nodes[i].path = last.path[1] => tree_root = i
    /\ (\A i \in Indexes : Nodes[i].path # last.path[1]) => tree_root = Invalid
    /\ list_root = tree_root

\* C3 witness: the resolver returned two different paths and both views
\* show the first.
LocationFirstOfTwo ==
  /\ last.slot = "change_location"
  /\ Len(last.path) = 2
  /\ last.path[1] # last.path[2]
  /\ tree_root \in Indexes
  /\ Nodes[tree_root].path = last.path[1]
  /\ list_root = tree_root

\* C4: after listview_double_clicked(i) the list view root is i, file or
\* directory.
DoubleClickRootsList ==
  last.slot = "listview_double_clicked" => list_root = last.arg

\* C4 witness: a file was double-clicked and is now the list view's root.
DoubleClickOnFile ==
  /\ last.slot = "listview_double_clicked"
  /\ ~Nodes[last.arg].dir
  /\ list_root = last.arg

\* C5: after listview_clicked(i) the tree view's selection is exactly {i}
\* and i is the current index, whatever was selected before.
ListClickSelectsOnly ==
  last.slot = "listview_clicked" => (selection = {last.arg} /\ current = last.arg)

\* C5 witness: an item was clicked in the list after the list view had
\* moved on from the tree view's root, and it alone is selected.
ListClickSelected ==
  /\ last.slot = "listview_clicked"
  /\ selection = {last.arg}
  /\ current = last.arg
  /\ list_root # tree_root

\* C6: the icon is a square whose edge lies in [48,256] in every reachable
\* state, and after change_icon_size(v) the edge is v.
IconSizeInRange ==
  /\ iconSize[1] = iconSize[2]
  /\ iconSize[1] \in 48..256
  /\ last.slot = "change_icon_size" => iconSize[1] = last.arg

\* C6 witness: the slider was pushed to the top of its range.
IconSizeAtMax ==
  /\ last.slot = "change_icon_size"
  /\ last.arg = 256
  /\ iconSize = <<256, 256>>

\* C7: when the resolver returns an empty list, change_location moves
\* neither view's root.
EmptyResolutionKeepsRoots ==
  [][(last'.slot = "change_location" /\ Len(last'.path) = 0) =>
       (tree_root' = tree_root /\ list_root' = list_root)]_vars

\* C7 witness: an empty resolution ended in IndexError while the two views
\* were rooted at different directories, neither the filesystem root.
EmptyResolutionRaised ==
  /\ last.slot = "change_location"
  /\ Len(last.path) = 0
  /\ raised = "IndexError"
  /\ list_root # tree_root
  /\ tree_root # index(rootPath)

SlotsFrame ==
  [][/\ last'.slot \in {"treeview_clicked", "listview_double_clicked"} =>
          UNCHANGED <<tree_root, selection, current, iconSize>>
     /\ last'.slot = "listview_clicked" =>
          UNCHANGED <<tree_root, list_root, iconSize>>
     /\ last'.slot = "change_icon_size" =>
          UNCHANGED <<tree_root, list_root, selection, current>>
     /\ last'.slot = "change_location" =>
          UNCHANGED <<selection, current, iconSize>>]_vars

\* C9 witness: a double-click moved the list view while the tree view was
\* rooted elsewhere, with an item selected and the icons enlarged.
DoubleClickAmidState ==
  /\ last.slot = "listview_double_clicked"
  /\ list_root = last.arg
  /\ tree_root # list_root
  /\ tree_root # index(rootPath)
  /\ selection # {}
  /\ iconSize # <<48, 48>>

\* C10: with clicks delivered only for items the views show, the list view
\* root is the tree view root or a descendant of it.
ListRootUnderTreeRoot ==
  list_root = tree_root \/ tree_root \in Ancestors(list_root)

\* C10 witness: the tree view is rooted at a shortcut location and the list
\* view two levels below it.
ListRootDeepUnderTreeRoot ==
  /\ tree_root \in Indexes
  /\ tree_root # index(rootPath)
  /\ list_root \in Indexes
  /\ parent(list_root) # tree_root
  /\ tree_root \in Ancestors(parent(list_root))

====
